---- MODULE Spec2Model ----
(***************************************************************************)
(* medspacy: MedspacyMatcher (rule registry), prune_overlapping_matches    *)
(* (overlap pruner) and matches_to_spans (span materializer), modelled     *)
(* from medspacy/common/medspacy_matcher.py.                               *)
(*                                                                         *)
(* Spec     : the engines report a bounded match list, the pruner runs on  *)
(*            it statement by statement, then once more on its own result. *)
(* SpecReg  : the registry (add) and matches_to_spans.                     *)
(***************************************************************************)
EXTENDS Integers, Sequences, FiniteSets, TLC

\* ------------------------------------------------------------------ bounds
\* Largest token offset of a generated match (end <= MaxTok).
MaxTok == 4
\* Longest generated match list.
MaxLen == 3
\* Most rule objects handed to one registry over all its add calls.
MaxRules == 3
\* Most rules in one add call.
MaxBatch == 2
\* Longest match list handed to matches_to_spans.
MaxSpans == 2
\* Largest token offset of a match an engine reports to __call__.
MaxCallTok == 3

VARIABLES
    \* ---- prune_overlapping_matches: arguments and locals of the active call
    matches,        \* argument `matches`
    strategy,       \* argument `strategy`
    unpruned,       \* local `unpruned`
    pruned,         \* local `pruned`
    curr_match,     \* local `curr_match`
    num_matches,    \* local `num_matches`
    pc,             \* position in the function
    result,         \* value returned to the outermost caller
    \* ---- the caller of the pruner
    input,          \* list the caller passed to the outermost call
    passes,         \* sweeps (executions of the while loop) since that call
    call_no,        \* 1: first call on the input, 2: second call, on the result
    first_result,   \* result of the first call, kept by the caller
    \* ---- MedspacyMatcher
    _labels,        \* self._labels
    _rule_map,      \* self._rule_map: rule id -> rule object
    rule_count,     \* self.__rule_count
    phrase_attr,    \* self.__phrase_matcher_attr
    matcher_rules,  \* patterns held by self.__matcher, in order of addition
    phrase_rules,   \* patterns held by self.__phrase_matcher
    regex_rules,    \* patterns held by self.__regex_matcher
    strings,        \* nlp.vocab.strings: the interned strings, by key
    rule_objs,      \* the rule objects created so far, with their attributes
    add_rules,      \* add: what is left of the argument `rules`
    add_pc,         \* add: "idle", "loop" or "raised"
    add_error,      \* the error the last add call raised, if any
    \* ---- matches_to_spans
    span_matches,   \* argument `matches`
    set_label,      \* argument `set_label`
    spans,          \* returned list of spans
    \* ---- MedspacyMatcher.__call__
    _prune,         \* self._prune
    engines         \* the engine that reported each match of the raw list

pvars == <<matches, strategy, unpruned, pruned, curr_match, num_matches, pc,
           result, input, passes, call_no, first_result>>

rvars == <<_labels, _rule_map, rule_count, phrase_attr, matcher_rules,
           phrase_rules, regex_rules, strings, rule_objs, add_rules, add_pc,
           add_error, span_matches, set_label, spans>>

cvars == <<_prune, engines>>

vars == <<pvars, rvars, cvars>>

\* =================================================================== pruner
\* A match is the triple <<rule_id, start, end>>; Python's x[1], x[2] are
\* this tuple's second and third component.
NoMatch == <<>>
NoResult == <<"none">>

start_of(m) == m[2]
end_of(m) == m[3]

\* faulty variant: the interval ends taken as closed
_match_overlaps_closed(a, b) ==
    \/ (start_of(a) >= start_of(b) /\ start_of(a) <= end_of(b))
    \/ (end_of(a) >= start_of(b) /\ end_of(a) <= end_of(b))

\* _match_overlaps(a, b)
_match_overlaps(a, b) ==
    \/ (start_of(a) >= start_of(b) /\ start_of(a) < end_of(b))
    \/ (end_of(a) > start_of(b) /\ end_of(a) <= end_of(b))

\* faulty variant: the test applied in one direction only
overlaps_one_way(a, b) == _match_overlaps(a, b)

\* overlaps(a, b)
overlaps(a, b) == _match_overlaps(a, b) \/ _match_overlaps(b, a)

\* key=lambda x: (x[1], x[2]) compared as Python compares tuples
sort_key_less(a, b) ==
    \/ start_of(a) < start_of(b)
    \/ (start_of(a) = start_of(b) /\ end_of(a) < end_of(b))

\* insertion of x after every element whose key is not greater (stable)
RECURSIVE insert_stable(_, _)
insert_stable(s, x) ==
    IF s = <<>> THEN <<x>>
    ELSE IF sort_key_less(x, Head(s)) THEN <<x>> \o s
    ELSE <<Head(s)>> \o insert_stable(Tail(s), x)

\* faulty variant: the copy is not sorted
unsorted(s) == s

\* sorted(matches, key=lambda x: (x[1], x[2])): a sorted copy, stable
RECURSIVE sorted(_)
sorted(s) ==
    IF s = <<>> THEN <<>>
    ELSE insert_stable(sorted(SubSeq(s, 1, Len(s) - 1)), s[Len(s)])

\* faulty variant: the span that ends later is taken for the longer one
later_end_span(curr, next) ==
    IF end_of(next) > end_of(curr) THEN next ELSE curr

\* faulty variant: of two spans of equal length the later one is taken
longer_or_equal_span(curr, next) ==
    IF end_of(next) - start_of(next) >= end_of(curr) - start_of(curr)
    THEN next ELSE curr

\* faulty variant: the candidate always replaces the current match
last_span(curr, next) == next

\* max(curr_match, next_match, key=lambda x: (x[2] - x[1])): the first of
\* the maximal ones
longer_span(curr, next) ==
    IF end_of(next) - start_of(next) > end_of(curr) - start_of(curr)
    THEN next ELSE curr

\* faulty variant: the strategy is not tested
any_strategy(s) == FALSE

\* the strategy test of line 132
unsupported(s) == s # "longest"

\* faulty variant: one sweep only, the result is never pruned again
single_pass(p, n) == Len(p) <= n

\* the base-point test of line 161
base_point(p, n) == Len(p) = n

\* lines 132-133: raise NotImplementedError
RaiseNotImplemented ==
    /\ UNCHANGED <<rvars, cvars>>
    /\ pc = "call"
    /\ unsupported(strategy)
    /\ pc' = "raised"
    /\ UNCHANGED <<matches, strategy, unpruned, pruned, curr_match,
                   num_matches, result, input, passes, call_no, first_result>>

\* lines 135-140: empty input is returned as it is
ReturnEmpty ==
    /\ UNCHANGED <<rvars, cvars>>
    /\ pc = "call"
    /\ ~unsupported(strategy)
    /\ Len(matches) = 0
    /\ unpruned' = sorted(matches)
    /\ pruned' = <<>>
    /\ num_matches' = Len(matches)
    /\ result' = matches
    /\ pc' = "done"
    /\ UNCHANGED <<matches, strategy, curr_match, input, passes, call_no,
                   first_result>>

\* lines 135-141: sorted copy, first element becomes curr_match
BeginSweep ==
    /\ UNCHANGED <<rvars, cvars>>
    /\ pc = "call"
    /\ ~unsupported(strategy)
    /\ Len(matches) # 0
    /\ pruned' = <<>>
    /\ num_matches' = Len(matches)
    /\ LET copy == sorted(matches)
       IN /\ curr_match' = Head(copy)
          /\ unpruned' = Tail(copy)
    /\ passes' = passes + 1
    /\ pc' = "loop"
    /\ UNCHANGED <<matches, strategy, result, input, call_no, first_result>>

\* lines 144-146: nothing left, emit curr_match and leave the loop
LoopLast ==
    /\ UNCHANGED <<rvars, cvars>>
    /\ pc = "loop"
    /\ Len(unpruned) = 0
    /\ pruned' = Append(pruned, curr_match)
    /\ pc' = "check"
    /\ UNCHANGED <<matches, strategy, unpruned, curr_match, num_matches,
                   result, input, passes, call_no, first_result>>

\* lines 147-156: the two overlap, keep the longer one, take a fresh current
LoopOverlap ==
    /\ UNCHANGED <<rvars, cvars>>
    /\ pc = "loop"
    /\ Len(unpruned) # 0
    /\ LET next_match == Head(unpruned)
           rest == Tail(unpruned)
       IN /\ overlaps(curr_match, next_match)
          /\ pruned' = Append(pruned, longer_span(curr_match, next_match))
          /\ IF Len(rest) = 0
             THEN /\ unpruned' = rest
                  /\ pc' = "check"
                  /\ UNCHANGED curr_match
             ELSE /\ curr_match' = Head(rest)
                  /\ unpruned' = Tail(rest)
                  /\ pc' = "loop"
    /\ UNCHANGED <<matches, strategy, num_matches, result, input, passes,
                   call_no, first_result>>

\* lines 147-150, 157-159: no overlap, emit curr_match, candidate is current
LoopDisjoint ==
    /\ UNCHANGED <<rvars, cvars>>
    /\ pc = "loop"
    /\ Len(unpruned) # 0
    /\ LET next_match == Head(unpruned)
       IN /\ ~overlaps(curr_match, next_match)
          /\ pruned' = Append(pruned, curr_match)
          /\ curr_match' = next_match
          /\ unpruned' = Tail(unpruned)
    /\ pc' = "loop"
    /\ UNCHANGED <<matches, strategy, num_matches, result, input, passes,
                   call_no, first_result>>

\* lines 161-162: recursive base point
ReturnPruned ==
    /\ UNCHANGED <<rvars, cvars>>
    /\ pc = "check"
    /\ base_point(pruned, num_matches)
    /\ result' = pruned
    /\ pc' = "done"
    /\ UNCHANGED <<matches, strategy, unpruned, pruned, curr_match,
                   num_matches, input, passes, call_no, first_result>>

\* lines 163-165: return prune_overlapping_matches(pruned), a tail call with
\* the default strategy
Recurse ==
    /\ UNCHANGED <<rvars, cvars>>
    /\ pc = "check"
    /\ ~base_point(pruned, num_matches)
    /\ matches' = pruned
    /\ strategy' = "longest"
    /\ pc' = "call"
    /\ UNCHANGED <<unpruned, pruned, curr_match, num_matches, result, input,
                   passes, call_no, first_result>>

\* the caller passes the returned list to the pruner once more
CallAgain ==
    /\ UNCHANGED <<rvars, cvars>>
    /\ pc = "done"
    /\ call_no = 1
    /\ first_result' = result
    /\ matches' = result
    /\ input' = result
    /\ strategy' = "longest"
    /\ unpruned' = <<>>
    /\ pruned' = <<>>
    /\ curr_match' = NoMatch
    /\ num_matches' = 0
    /\ result' = NoResult
    /\ passes' = 0
    /\ call_no' = 2
    /\ pc' = "call"

\* ------------------------------------------------------------ pruner input
\* token intervals with 0 <= start < end <= MaxTok
Intervals == {iv \in (0..MaxTok) \X (0..MaxTok) : iv[1] < iv[2]}

\* the match lists the documentation names
ChainExample == <<<<1, 0, 3>>, <<2, 2, 6>>, <<3, 5, 9>>>>
NestedExample == <<<<1, 2, 8>>, <<2, 3, 5>>>>
TouchExample == <<<<1, 0, 3>>, <<2, 3, 5>>>>
HistoryExample == <<<<1, 1, 3>>, <<2, 0, 3>>>>
ExampleLists == {ChainExample, NestedExample, TouchExample, HistoryExample}

Strategies == {"longest", "shortest"}

\* no document has been matched yet
InitPrune ==
    /\ matches = <<>>
    /\ strategy = "longest"
    /\ input = <<>>
    /\ unpruned = <<>>
    /\ pruned = <<>>
    /\ curr_match = NoMatch
    /\ num_matches = 0
    /\ pc = "collect"
    /\ result = NoResult
    /\ passes = 0
    /\ call_no = 1
    /\ first_result = NoResult

\* lines 121-123: an engine reports one more match, which joins the list; the
\* k-th match of the list carries rule id k (the pruner never reads the id)
EngineReports ==
    /\ UNCHANGED <<rvars, cvars>>
    /\ pc = "collect"
    /\ Len(matches) < MaxLen
    /\ \E iv \in Intervals :
          matches' = Append(matches, <<Len(matches) + 1, iv[1], iv[2]>>)
    /\ UNCHANGED <<strategy, unpruned, pruned, curr_match, num_matches, pc,
                   result, input, passes, call_no, first_result>>

\* the engines report one of the documented match lists
EnginesReportExample ==
    /\ UNCHANGED <<rvars, cvars>>
    /\ pc = "collect"
    /\ matches = <<>>
    /\ matches' \in ExampleLists
    /\ UNCHANGED <<strategy, unpruned, pruned, curr_match, num_matches, pc,
                   result, input, passes, call_no, first_result>>

\* line 125, or a direct call that names a strategy: the list is pruned
CallPrune ==
    /\ UNCHANGED <<rvars, cvars>>
    /\ pc = "collect"
    /\ strategy' \in Strategies
    /\ input' = matches
    /\ pc' = "call"
    /\ UNCHANGED <<matches, unpruned, pruned, curr_match, num_matches, result,
                   passes, call_no, first_result>>

\* ================================================================= registry
\* Strings are sequences of characters. None is Python's None.
None == <<"None">>

\* rule.category values; one holds an underscore and a digit
Categories == {<<"a">>, <<"a", "_", "0">>}

\* what rule.pattern can be: absent, a str, a list, or any other type
PatternKinds == {"None", "str", "list", "other"}

\* rule.literal of every generated rule
Literal == <<"H", "x">>

\* the objects an add call can be handed: rules that inherit from BaseRule,
\* and one object that does not
RuleShapes ==
    [base : {TRUE}, category : Categories, pattern : PatternKinds,
     rule_id : {None}]
    \cup {[base |-> FALSE, category |-> None, pattern |-> "None",
           rule_id |-> None]}

\* str(n) for n >= 0, as the f-string formats an int
DigitChar(d) ==
    CASE d = 0 -> "0" [] d = 1 -> "1" [] d = 2 -> "2" [] d = 3 -> "3"
      [] d = 4 -> "4" [] d = 5 -> "5" [] d = 6 -> "6" [] d = 7 -> "7"
      [] d = 8 -> "8" [] d = 9 -> "9"

RECURSIVE int_str(_)
int_str(n) ==
    IF n < 10 THEN <<DigitChar(n)>>
    ELSE int_str(n \div 10) \o <<DigitChar(n % 10)>>

\* faulty variant: the sequence number is left out of the id
format_category_only(category, count) == category

\* f"{rule.category}_{self.__rule_count}"
format_rule_id(category, count) == category \o <<"_">> \o int_str(count)

\* str.lower() on the characters in use
lower_char(c) == IF c = "H" THEN "h" ELSE c
lower(str) == [i \in 1..Len(str) |-> lower_char(str[i])]

\* the text the phrase matcher is given (lines 96-102)
phrase_text(literal, attr) ==
    IF lower(attr) = <<"l", "o", "w", "e", "r">> THEN lower(literal)
    ELSE literal

\* vocab.strings: adding a string that is there already changes nothing
intern(store, str) ==
    IF \E k \in 1..Len(store) : store[k] = str THEN store
    ELSE Append(store, str)

\* self._rule_map[rule_id] = rule
map_put(map, rule_id, obj) ==
    [k \in DOMAIN map \cup {rule_id} |-> IF k = rule_id THEN obj ELSE map[k]]

NotBaseRuleError == "ValueError: Rules must inherit from medspacy.common.BaseRule."
BadPatternError == "ValueError: The pattern argument must be either a string or a list"

\* MedspacyMatcher.__init__
NewMatcher(attr) ==
    /\ _labels = {}
    /\ _rule_map = <<>>
    /\ rule_count = 0
    /\ phrase_attr = attr
    /\ matcher_rules = <<>>
    /\ phrase_rules = <<>>
    /\ regex_rules = <<>>
    /\ strings = <<>>
    /\ rule_objs = <<>>
    /\ add_rules = <<>>
    /\ add_pc = "idle"
    /\ add_error = None
    /\ span_matches = <<>>
    /\ set_label = TRUE
    /\ spans = <<>>

spanvars == <<span_matches, set_label, spans>>

\* a caller creates the rule objects of a batch and calls add(rules)
AddBegin ==
    /\ add_pc \in {"idle", "raised"}
    /\ \E n \in 0..MaxBatch :
          /\ Len(rule_objs) + n <= MaxRules
          /\ \E batch \in [1..n -> RuleShapes] :
                /\ rule_objs' = rule_objs \o batch
                /\ add_rules' = [i \in 1..n |-> Len(rule_objs) + i]
    /\ add_pc' = "loop"
    /\ add_error' = None
    /\ UNCHANGED <<_labels, _rule_map, rule_count, phrase_attr, matcher_rules,
                   phrase_rules, regex_rules, strings>>
    /\ UNCHANGED spanvars
    /\ UNCHANGED <<pvars, cvars>>

\* the rule the loop of add is at, and the id line 81 gives it
this_rule == rule_objs[Head(add_rules)]
this_rule_id == format_rule_id(this_rule.category, rule_count)

\* lines 80-83, common to every rule that passed the isinstance test
Register ==
    /\ _labels' = _labels \cup {this_rule.category}
    /\ rule_objs' = [rule_objs EXCEPT ![Head(add_rules)].rule_id = this_rule_id]
    /\ _rule_map' = map_put(_rule_map, this_rule_id, Head(add_rules))

\* lines 78-79: not a BaseRule
AddNotBaseRule ==
    /\ add_pc = "loop"
    /\ add_rules # <<>>
    /\ ~this_rule.base
    /\ add_pc' = "raised"
    /\ add_error' = NotBaseRuleError
    /\ UNCHANGED <<_labels, _rule_map, rule_count, phrase_attr, matcher_rules,
                   phrase_rules, regex_rules, strings, rule_objs, add_rules>>
    /\ UNCHANGED spanvars
    /\ UNCHANGED <<pvars, cvars>>

\* lines 80-87, 108: a str pattern goes to the regex matcher
AddRegex ==
    /\ add_pc = "loop"
    /\ add_rules # <<>>
    /\ this_rule.base
    /\ this_rule.pattern = "str"
    /\ Register
    /\ regex_rules' = Append(regex_rules, <<this_rule_id, "str">>)
    /\ strings' = intern(strings, this_rule_id)
    /\ rule_count' = rule_count + 1
    /\ add_rules' = Tail(add_rules)
    /\ UNCHANGED <<phrase_attr, matcher_rules, phrase_rules, add_pc, add_error>>
    /\ UNCHANGED spanvars
    /\ UNCHANGED <<pvars, cvars>>

\* lines 80-84, 88-90, 108: a list pattern goes to the token matcher
AddPattern ==
    /\ add_pc = "loop"
    /\ add_rules # <<>>
    /\ this_rule.base
    /\ this_rule.pattern = "list"
    /\ Register
    /\ matcher_rules' = Append(matcher_rules, <<this_rule_id, "list">>)
    /\ strings' = intern(strings, this_rule_id)
    /\ rule_count' = rule_count + 1
    /\ add_rules' = Tail(add_rules)
    /\ UNCHANGED <<phrase_attr, phrase_rules, regex_rules, add_pc, add_error>>
    /\ UNCHANGED spanvars
    /\ UNCHANGED <<pvars, cvars>>

\* lines 80-84, 95-108: no pattern, the literal goes to the phrase matcher
AddPhrase ==
    /\ add_pc = "loop"
    /\ add_rules # <<>>
    /\ this_rule.base
    /\ this_rule.pattern = "None"
    /\ Register
    /\ phrase_rules' =
          Append(phrase_rules, <<this_rule_id, phrase_text(Literal, phrase_attr)>>)
    /\ strings' = intern(strings, this_rule_id)
    /\ rule_count' = rule_count + 1
    /\ add_rules' = Tail(add_rules)
    /\ UNCHANGED <<phrase_attr, matcher_rules, regex_rules, add_pc, add_error>>
    /\ UNCHANGED spanvars
    /\ UNCHANGED <<pvars, cvars>>

\* lines 80-84, 91-94: a pattern of another type raises, after lines 80-83
AddBadPattern ==
    /\ add_pc = "loop"
    /\ add_rules # <<>>
    /\ this_rule.base
    /\ this_rule.pattern = "other"
    /\ Register
    /\ add_pc' = "raised"
    /\ add_error' = BadPatternError
    /\ UNCHANGED <<rule_count, phrase_attr, matcher_rules, phrase_rules,
                   regex_rules, strings, add_rules>>
    /\ UNCHANGED spanvars
    /\ UNCHANGED <<pvars, cvars>>

\* line 77: the for loop is exhausted, add returns
AddEnd ==
    /\ add_pc = "loop"
    /\ add_rules = <<>>
    /\ add_pc' = "idle"
    /\ UNCHANGED <<_labels, _rule_map, rule_count, phrase_attr, matcher_rules,
                   phrase_rules, regex_rules, strings, rule_objs, add_rules,
                   add_error>>
    /\ UNCHANGED spanvars
    /\ UNCHANGED <<pvars, cvars>>

\* ---------------------------------------------------------- matches_to_spans
\* token ranges of the matches handed to matches_to_spans
SpanIntervals == {<<0, 1>>, <<1, 3>>}

\* a match an engine reports: the key of a registered rule id and a range
EngineMatches ==
    {<<k, iv[1], iv[2]>> : k \in 1..Len(strings), iv \in SpanIntervals}

\* label = doc.vocab.strings[rule_id] (line 188), None otherwise (line 190)
span_label(rule_id, with_label) ==
    IF with_label THEN strings[rule_id] ELSE None

\* lines 185-192
matches_to_spans(ms, with_label) ==
    [i \in 1..Len(ms) |->
        [start |-> ms[i][2], end |-> ms[i][3],
         label |-> span_label(ms[i][1], with_label)]]

MatchesToSpans ==
    /\ add_pc \in {"idle", "raised"}
    /\ \E n \in 0..MaxSpans :
          \E ms \in [1..n -> EngineMatches] :
              \E with_label \in BOOLEAN :
                  /\ span_matches' = ms
                  /\ set_label' = with_label
                  /\ spans' = matches_to_spans(ms, with_label)
    /\ UNCHANGED <<_labels, _rule_map, rule_count, phrase_attr, matcher_rules,
                   phrase_rules, regex_rules, strings, rule_objs, add_rules,
                   add_pc, add_error>>
    /\ UNCHANGED <<pvars, cvars>>

\* the pruner at rest, while the registry is exercised
PrunerIdle ==
    /\ matches = <<>>
    /\ strategy = "longest"
    /\ input = <<>>
    /\ unpruned = <<>>
    /\ pruned = <<>>
    /\ curr_match = NoMatch
    /\ num_matches = 0
    /\ pc = "idle"
    /\ result = NoResult
    /\ passes = 0
    /\ call_no = 1
    /\ first_result = NoResult

PhraseAttrs == {<<"L", "O", "W", "E", "R">>, <<"O", "R", "T", "H">>}

\* __init__ with the default prune=True, no document matched
CoordinatorIdle ==
    /\ _prune = TRUE
    /\ engines = <<>>

InitReg ==
    /\ PrunerIdle
    /\ CoordinatorIdle
    /\ \E attr \in PhraseAttrs : NewMatcher(attr)

NextReg ==
    \/ AddBegin
    \/ AddNotBaseRule
    \/ AddRegex
    \/ AddPattern
    \/ AddPhrase
    \/ AddBadPattern
    \/ AddEnd
    \/ MatchesToSpans

SpecReg == InitReg /\ [][NextReg]_vars

\* --------------------------------------------------------------------------
Init ==
    /\ InitPrune
    /\ NewMatcher(<<"L", "O", "W", "E", "R">>)
    /\ CoordinatorIdle

Next ==
    \/ EngineReports
    \/ EnginesReportExample
    \/ CallPrune
    \/ RaiseNotImplemented
    \/ ReturnEmpty
    \/ BeginSweep
    \/ LoopLast
    \/ LoopOverlap
    \/ LoopDisjoint
    \/ ReturnPruned
    \/ Recurse
    \/ CallAgain

Spec == Init /\ [][Next]_vars

\* ============================================== MedspacyMatcher.__call__
\* the engines in the order __call__ concatenates their matches
EngineOrder == <<"matcher", "phrase", "regex">>

\* token ranges of the matches an engine reports to __call__
CallIntervals == {iv \in (0..MaxCallTok) \X (0..MaxCallTok) : iv[1] < iv[2]}

\* five matches, two of them (a phrase and a regex match) on tokens [2, 3)
TieExample ==
    <<<<1, 0, 1>>, <<2, 0, 2>>, <<3, 1, 3>>, <<4, 2, 3>>, <<5, 2, 3>>>>
TieEngines == <<"matcher", "matcher", "matcher", "phrase", "regex">>

\* `matches += engine(doc)`: the engine's matches join the raw list in the
\* order the engine gives them; the k-th match of the raw list carries rule
\* id k
Concatenate(engine, next_pc) ==
    /\ \E n \in 0..(MaxLen - Len(matches)) :
          \E found \in [1..n -> CallIntervals] :
              /\ matches' = matches \o
                    [i \in 1..n |-> <<Len(matches) + i, found[i][1], found[i][2]>>]
              /\ engines' = engines \o [i \in 1..n |-> engine]
    /\ pc' = next_pc
    /\ UNCHANGED <<strategy, unpruned, pruned, curr_match, num_matches, result,
                   input, passes, call_no, first_result, _prune>>
    /\ UNCHANGED rvars

\* line 121: matches = self.__matcher(doc)
MatcherCall ==
    /\ pc = "line121"
    /\ Concatenate(EngineOrder[1], "line122")

\* line 122: matches += self.__phrase_matcher(doc)
PhraseCall ==
    /\ pc = "line122"
    /\ Concatenate(EngineOrder[2], "line123")

\* line 123: matches += self.__regex_matcher(doc)
RegexCall ==
    /\ pc = "line123"
    /\ Concatenate(EngineOrder[3], "line124")

\* lines 121-123 on a document where the engines find the five matches of
\* TieExample
TieDocumentCall ==
    /\ pc = "line121"
    /\ matches' = TieExample
    /\ engines' = TieEngines
    /\ pc' = "line124"
    /\ UNCHANGED <<strategy, unpruned, pruned, curr_match, num_matches, result,
                   input, passes, call_no, first_result, _prune>>
    /\ UNCHANGED rvars

\* lines 124-125: matches = prune_overlapping_matches(matches)
PruneMatches ==
    /\ pc = "line124"
    /\ _prune
    /\ input' = matches
    /\ strategy' = "longest"
    /\ pc' = "call"
    /\ UNCHANGED <<matches, unpruned, pruned, curr_match, num_matches, result,
                   passes, call_no, first_result>>
    /\ UNCHANGED <<rvars, cvars>>

\* lines 124, 126: without pruning the raw list is returned
ReturnRaw ==
    /\ pc = "line124"
    /\ ~_prune
    /\ input' = matches
    /\ result' = matches
    /\ pc' = "done"
    /\ UNCHANGED <<matches, strategy, unpruned, pruned, curr_match,
                   num_matches, passes, call_no, first_result>>
    /\ UNCHANGED <<rvars, cvars>>

\* a matcher built with prune=True or prune=False is called on a document
InitCall ==
    /\ matches = <<>>
    /\ strategy = "longest"
    /\ input = <<>>
    /\ unpruned = <<>>
    /\ pruned = <<>>
    /\ curr_match = NoMatch
    /\ num_matches = 0
    /\ pc = "line121"
    /\ result = NoResult
    /\ passes = 0
    /\ call_no = 1
    /\ first_result = NoResult
    /\ NewMatcher(<<"L", "O", "W", "E", "R">>)
    /\ _prune \in BOOLEAN
    /\ engines = <<>>

NextCall ==
    \/ MatcherCall
    \/ PhraseCall
    \/ RegexCall
    \/ TieDocumentCall
    \/ PruneMatches
    \/ ReturnRaw
    \/ ReturnEmpty
    \/ BeginSweep
    \/ LoopLast
    \/ LoopOverlap
    \/ LoopDisjoint
    \/ ReturnPruned
    \/ Recurse

SpecCall == InitCall /\ [][NextCall]_vars

\* ============================================================ pruner claims
\* the tokens a match covers: the half-open interval [start, end)
Tokens(m) == start_of(m)..(end_of(m) - 1)
ShareToken(a, b) == Tokens(a) \cap Tokens(b) # {}
SpanLen(m) == end_of(m) - start_of(m)
Elems(s) == {s[i] : i \in 1..Len(s)}
Returned == pc = "done"

\* C1: the list returned under the 'longest' strategy holds no two distinct
\* entries for which overlaps is true.
C1_NoOverlapInOutput ==
    Returned =>
        \A i, j \in 1..Len(result) :
            i # j => ~overlaps(result[i], result[j])

\* C1 witness: three matches went in, an overlap was pruned and two came out.
C1_Witness ==
    /\ Returned
    /\ call_no = 1
    /\ Len(input) = 3
    /\ Len(result) = 2
    /\ passes >= 2

\* C4: a match strictly longer than every other input match it overlaps is in
\* the output and every match overlapping it is not; the nested pair
\* (r1,2,8), (r2,3,5) yields only (r1,2,8).
C4_LongestReturned ==
    Returned =>
        /\ \A i \in 1..Len(input) :
              (\A j \in 1..Len(input) :
                  (j # i /\ ShareToken(input[i], input[j]))
                      => SpanLen(input[i]) > SpanLen(input[j]))
              => /\ input[i] \in Elems(result)
                 /\ \A j \in 1..Len(input) :
                       (j # i /\ ShareToken(input[i], input[j]))
                           => input[j] \notin Elems(result)
        /\ (input = NestedExample => result = <<<<1, 2, 8>>>>)

\* C4 witness: the nested pair was pruned to the containing match.
C4_Witness ==
    /\ Returned
    /\ input = NestedExample
    /\ result = <<<<1, 2, 8>>>>

PairwiseDisjoint(s) ==
    \A i, j \in 1..Len(s) : i # j => ~ShareToken(s[i], s[j])

OrderedByStartEnd(s) ==
    \A i, j \in 1..Len(s) :
        i < j => \/ start_of(s[i]) < start_of(s[j])
                 \/ (start_of(s[i]) = start_of(s[j])
                        /\ end_of(s[i]) <= end_of(s[j]))

\* C6: pruning the pruned list again returns it unchanged, and pruning a
\* pairwise non-overlapping list (the empty list and boundary-touching
\* matches included) returns the same matches, none dropped, ordered by start
\* then end.
C6_Idempotent ==
    /\ (Returned /\ call_no = 2) => result = first_result
    /\ (Returned /\ PairwiseDisjoint(input)) =>
          /\ Len(result) = Len(input)
          /\ Elems(result) = Elems(input)
          /\ OrderedByStartEnd(result)
    /\ (Returned /\ input = <<>>) => result = <<>>
    /\ (Returned /\ input = TouchExample) => result = TouchExample

\* C6 witness: the second call returned the two matches the first call had
\* returned.
C6_Witness ==
    /\ Returned
    /\ call_no = 2
    /\ Len(first_result) = 2
    /\ result = first_result

\* a quantity that every step of one outermost call makes smaller
Variant ==
    (Len(matches) + 1) * (Len(input) + 4)
    + CASE pc = "call" -> Len(input) + 3
        [] pc = "loop" -> Len(unpruned) + 2
        [] pc = "check" -> 1
        [] OTHER -> 0

IsSubset(s, t) == Elems(s) \subseteq Elems(t)

\* C7: pruning terminates: every step of a call lowers a natural-number
\* variant, a sweep ends with the working list empty, a further pass starts
\* only when the pass output is strictly shorter than its input, there are at
\* most n passes for n matches, and the chain (r1,0,3), (r2,2,6), (r3,5,9)
\* converges to a non-overlapping subset after more than one pass.
C7_Terminates ==
    /\ [][(pc # "collect" /\ call_no' = call_no)
            => (Variant' < Variant /\ Variant' >= 0)]_vars
    /\ [](pc = "check" => unpruned = <<>>)
    /\ [][(pc = "check" /\ pc' = "call") => Len(pruned) < Len(matches)]_vars
    /\ [](passes <= Len(input))
    /\ []((Returned /\ input = ChainExample) =>
            /\ passes > 1
            /\ IsSubset(result, input)
            /\ PairwiseDisjoint(result))

\* C7 witness: the chain converged in three passes.
C7_Witness ==
    /\ Returned
    /\ input = ChainExample
    /\ passes = 3
    /\ result = <<<<2, 2, 6>>>>

\* C8: a strategy other than 'longest' raises before any match is examined,
\* whatever the list, leaves the list as it was and returns nothing.
C8_UnsupportedStrategy ==
    strategy # "longest" =>
        /\ pc \in {"call", "raised"}
        /\ (pc = "call" => ENABLED RaiseNotImplemented)
        /\ matches = input
        /\ unpruned = <<>>
        /\ pruned = <<>>
        /\ curr_match = NoMatch
        /\ passes = 0
        /\ result = NoResult

\* C8 witness: the error was raised on a list of two matches.
C8_Witness ==
    /\ pc = "raised"
    /\ strategy = "shortest"
    /\ Len(input) = 2

\* C9: overlaps(a, b) holds exactly when [a_start, a_end) and
\* [b_start, b_end) share a token; it is symmetric, true for identical and
\* nested intervals and false for intervals that only touch.
C9_OverlapsIsIntersection ==
    \A i, j \in 1..Len(input) :
        LET a == input[i]
            b == input[j]
        IN /\ overlaps(a, b) <=> ShareToken(a, b)
           /\ overlaps(a, b) <=> overlaps(b, a)
           /\ (start_of(a) = start_of(b) /\ end_of(a) = end_of(b))
                 => overlaps(a, b)
           /\ (start_of(a) <= start_of(b) /\ end_of(b) <= end_of(a))
                 => overlaps(a, b)
           /\ end_of(a) = start_of(b) => ~overlaps(a, b)

\* C9 witness: the sweep applied the test to the touching pair and to a
\* nested pair.
C9_Witness ==
    /\ pc = "loop"
    /\ unpruned # <<>>
    /\ \/ (input = TouchExample /\ ~overlaps(curr_match, Head(unpruned)))
       \/ (input = NestedExample /\ overlaps(curr_match, Head(unpruned)))

Removed == {m \in Elems(input) : m \notin Elems(result)}

\* C10 as stated: every input match absent from the output overlaps a match
\* that is in the output.
C10_RemovedOverlapsKept ==
    Returned =>
        \A m \in Removed : \E r \in Elems(result) : ShareToken(m, r)

\* a could have lost a collision to b
Beats(b, a) == a # b /\ ShareToken(a, b) /\ SpanLen(b) >= SpanLen(a)

RECURSIVE BeatenBy(_, _)
\* the input matches reached from the set S by at most k links of Beats
BeatenBy(S, k) ==
    IF k = 0 THEN S
    ELSE BeatenBy(S \cup {b \in Elems(input) : \E a \in S : Beats(b, a)}, k - 1)

\* C10 amended: every input match absent from the output is linked to a match
\* in the output by a chain of input matches, each overlapping the one before
\* it and at least as long; the match at the end of the chain need not overlap
\* the removed match itself.
C10_RemovedChainsToKept ==
    Returned =>
        \A m \in Removed :
            /\ \E b \in Elems(input) : Beats(b, m)
            /\ BeatenBy({m}, Len(input)) \cap Elems(result) # {}

\* C10 witness: a match was removed by a competitor that was removed in a
\* later pass, and the survivor does not overlap it.
C10_Witness ==
    /\ Returned
    /\ call_no = 1
    /\ input = <<<<1, 0, 1>>, <<2, 0, 2>>, <<3, 1, 4>>>>
    /\ result = <<<<3, 1, 4>>>>

\* ========================================================== registry claims
\* the rule objects that add has given an id
Registered == {o \in 1..Len(rule_objs) : rule_objs[o].rule_id # None}

\* the sequence number inside the id of a registered rule object
SeqOf(o) ==
    CHOOSE n \in 0..MaxRules + 1 :
        rule_objs[o].rule_id = format_rule_id(rule_objs[o].category, n)

\* C2: whatever the add calls, aborted ones included, no two distinct rules
\* have the same rule_id and no sequence number serves two rules.
C2_RuleIdsUnique ==
    \A o1, o2 \in Registered :
        o1 # o2 =>
            /\ rule_objs[o1].rule_id # rule_objs[o2].rule_id
            /\ SeqOf(o1) # SeqOf(o2)

\* C3: the step of add that rejects a pattern of an unsupported type leaves
\* the id-to-rule mapping, the categories and the counter as the rules before
\* it left them; the rejected rule is not in the mapping.
C3_RejectLeavesNoTrace ==
    [][(add_pc = "loop" /\ add_pc' = "raised" /\ add_error' = BadPatternError)
        => /\ _rule_map' = _rule_map
           /\ _labels' = _labels
           /\ rule_count' = rule_count
           /\ \A k \in DOMAIN _rule_map' : _rule_map'[k] # Head(add_rules)]_vars

\* C5: matches_to_spans returns one span per match; with set_label the label
\* is the category of the rule registered under the match's rule_id, without
\* it the label is absent.
C5_LabelIsCategory ==
    /\ Len(spans) = Len(span_matches)
    /\ \A i \in 1..Len(spans) :
          IF set_label
          THEN spans[i].label =
                  rule_objs[_rule_map[strings[span_matches[i][1]]]].category
          ELSE spans[i].label = None

\* ======================================================= coordinator claims
SameRange(a, b) == start_of(a) = start_of(b) /\ end_of(a) = end_of(b)

\* position of an engine in the concatenation order of __call__
EngineRank(e) == CHOOSE k \in 1..Len(EngineOrder) : EngineOrder[k] = e

\* the list the sweep is working through
Working == <<curr_match>> \o unpruned

\* C11 as stated: of two input matches on the same token range, only the one
\* that came earlier in the raw list can be in the pruned output.
C11_EarlierTwinKept ==
    (Returned /\ _prune) =>
        \A i, j \in 1..Len(input) :
            (i < j /\ SameRange(input[i], input[j]))
                => input[j] \notin Elems(result)

\* C11 amended: within one comparison the tie goes to the first-encountered
\* match: when the sweep compares two overlapping matches of equal length it
\* keeps the one earlier in sorted order; in every pass, matches on the same
\* token range stand in raw-list order, the order Attribute-Pattern, Phrase,
\* Regex; and when the later of two such matches is returned, the earlier one
\* was removed by a third match that overlaps it and is at least as long.
C11_TieToFirstInComparison ==
    /\ [][(/\ pc = "loop"
           /\ unpruned # <<>>
           /\ overlaps(curr_match, Head(unpruned))
           /\ SpanLen(curr_match) = SpanLen(Head(unpruned)))
          => pruned' = Append(pruned, curr_match)]_vars
    /\ [](pc = "loop" =>
            \A i, j \in 1..Len(Working) :
                (i < j /\ SameRange(Working[i], Working[j]))
                    => /\ Working[i][1] < Working[j][1]
                       /\ EngineRank(engines[Working[i][1]])
                             <= EngineRank(engines[Working[j][1]]))
    /\ []((Returned /\ _prune) =>
            \A i, j \in 1..Len(input) :
                (i < j /\ SameRange(input[i], input[j])
                       /\ input[j] \in Elems(result))
                    => \E k \in 1..Len(input) :
                          k # i /\ k # j /\ Beats(input[k], input[i]))

\* C11 witness: the regex match on tokens [2, 3) was returned although the
\* phrase match on the same tokens came first; the tie between (r2,0,2) and
\* (r3,1,3) went to the first.
C11_Witness ==
    /\ Returned
    /\ _prune
    /\ input = TieExample
    /\ engines = TieEngines
    /\ result = <<<<2, 0, 2>>, <<5, 2, 3>>>>

====
